---------------------------- MODULE Spec2Model ----------------------------
(***************************************************************************)
(* ReelRush: the subtitle subsystem of VideoProductionTool (src/tools.py). *)
(*                                                                         *)
(* Strings are sequences of one-character strings, so that len(),          *)
(* endswith(), concatenation, split() and strip() are computed.            *)
(* Times are whole milliseconds (the source holds float seconds).          *)
(***************************************************************************)
EXTENDS Integers, Sequences, FiniteSets, TLC

VARIABLES
    words_with_time,  \* _generate_vosk_subtitles: the collected timed words
    i,                \* _create_vosk_chunks: the cursor (0-based, as in the code)
    chunks,           \* _create_vosk_chunks: the chunk list being built
    srt,              \* _generate_vosk_subtitles: the rendered caption text
    pc,               \* position in _generate_vosk_subtitles / _create_vosk_chunks
    error,            \* the message of the raised Exception, "" when none
    seconds,          \* _format_time: its argument, in milliseconds
    timeStr,          \* _format_time: its result, <<>> before the call
    job,              \* per job thread: the locals of one video production run
    fs,               \* the filesystem shared by all job threads: path -> content
    clock,            \* int(time.time()), the wall clock in whole seconds
    video_job,        \* web_app.py: the VideoCreationJob shared by worker and simulator
    worker,           \* create_video_with_progress: position of the worker thread
    progress_thread,  \* simulate_progress: position and loop index of the simulator
    thread_configs,   \* ConfigManager._thread_configs: thread ident -> Config
    caller,           \* per thread using the config proxy: position and paths read
    script            \* _generate_script_with_prompt: loop counter, calls, result

chunkerVars == <<words_with_time, i, chunks, srt, pc, error>>
timeVars == <<seconds, timeStr>>
pipelineVars == <<job, fs>>
webVars == <<video_job, worker, progress_thread>>
configVars == <<thread_configs, caller>>
scriptVars == <<script>>

vars == <<words_with_time, i, chunks, srt, pc, error, seconds, timeStr, job, fs, clock,
          video_job, worker, progress_thread, thread_configs, caller, script>>

-----------------------------------------------------------------------------
(* Bounds of the model *)

\* largest number of non-empty readframes() results of one resampled file
MaxFrames == 2

\* longest recognised word list explored
MaxWords == 3

\* largest hour count of the time values handed to _format_time
MaxHours == 100

-----------------------------------------------------------------------------
(* Program constants *)

\* tools.py:521  current_length > 7
LongWordLen == 7
\* tools.py:529  current_length <= 5 and len(next_word_text) <= 5
ShortWordLen == 5

\* tools.py:521  the endswith tuple
TerminalPunct == {".", "!", "?", ",", ";", ":"}

-----------------------------------------------------------------------------
(* Inputs: recognised words *)

Hello         == <<"H","e","l","l","o">>
WorldComma    == <<"w","o","r","l","d",",">>
Extraordinary == <<"e","x","t","r","a","o","r","d","i","n","a","r","y">>
GoBang        == <<"g","o","!">>
Content       == <<"c","o","n","t","e","n","t">>

\* word texts: short plain (5), 6 characters ending in a comma, long (13),
\* short ending in punctuation (3), neither short nor long (7)
WordPool == {Hello, WorldComma, Extraordinary, GoBang, Content}

\* (start, end) pairs in milliseconds
Timings == {<<0, 500>>, <<600, 1000>>, <<1100, 2000>>}

TimedWord == {[word |-> w, start |-> t[1], end |-> t[2]] : w \in WordPool, t \in Timings}

WordLists == UNION {[1..n -> TimedWord] : n \in 0..MaxWords}

-----------------------------------------------------------------------------
(* str helpers *)

\* str.endswith(tuple of one-character suffixes)
EndsWith(s, suffixes) == Len(s) > 0 /\ s[Len(s)] \in suffixes

\* index of the first occurrence of character c in s, 0 when absent
RECURSIVE FindFrom(_, _, _)
FindFrom(s, c, k) ==
    IF k > Len(s) THEN 0
    ELSE IF s[k] = c THEN k
    ELSE FindFrom(s, c, k + 1)

\* str.split(c) for a one-character separator
RECURSIVE Split(_, _)
Split(s, c) ==
    LET p == FindFrom(s, c, 1) IN
    IF p = 0 THEN <<s>>
    ELSE <<SubSeq(s, 1, p - 1)>> \o Split(SubSeq(s, p + 1, Len(s)), c)

\* concatenation of a sequence of sequences
RECURSIVE Flatten(_)
Flatten(ss) == IF ss = <<>> THEN <<>> ELSE Head(ss) \o Flatten(Tail(ss))

-----------------------------------------------------------------------------
(* _create_vosk_chunks, tools.py:512-543 *)

\* tools.py:522, 537, 540: a chunk of the current word alone
SoloChunk(current) ==
    [text |-> current.word, start |-> current.start, end |-> current.end]

\* the pair chunk with the second word left out of the text
PairChunkDropsNext(current, next_word) ==
    [text |-> current.word, start |-> current.start, end |-> next_word.end]

\* the pair chunk with a joining space after each word
PairChunkTrailingSpace(current, next_word) ==
    [text  |-> current.word \o <<" ">> \o next_word.word \o <<" ">>,
     start |-> current.start,
     end   |-> next_word.end]

\* the pair chunk with its start taken from the next word and its end from
\* the current one
PairChunkSwapsTimes(current, next_word) ==
    [text  |-> current.word \o <<" ">> \o next_word.word,
     start |-> next_word.start,
     end   |-> current.end]

\* tools.py:530-534: a chunk of the current and the next word
PairChunk(current, next_word) ==
    [text  |-> current.word \o <<" ">> \o next_word.word,
     start |-> current.start,
     end   |-> next_word.end]

\* the solo test without the punctuation check
ForcedSoloLengthOnly(current_word) == Len(current_word) > LongWordLen

\* tools.py:521: the current word is emitted alone without looking ahead
ForcedSolo(current_word) ==
    EndsWith(current_word, TerminalPunct) \/ Len(current_word) > LongWordLen

\* the pair test that looks at the current word only
CanPairIgnoresNext(current_word, next_word_text) ==
    Len(current_word) <= ShortWordLen

\* the pair test with < for <=
CanPairStrict(current_word, next_word_text) ==
    Len(current_word) < ShortWordLen /\ Len(next_word_text) < ShortWordLen

\* the pair test that also wants the next word unpunctuated
CanPairNextUnpunctuated(current_word, next_word_text) ==
    /\ Len(current_word) <= ShortWordLen
    /\ Len(next_word_text) <= ShortWordLen
    /\ ~EndsWith(next_word_text, TerminalPunct)

\* tools.py:529: both words are short enough to share a chunk
CanPair(current_word, next_word_text) ==
    Len(current_word) <= ShortWordLen /\ Len(next_word_text) <= ShortWordLen

\* an iteration that moves the cursor by three
ChunkAtSkips(ws, k) == [chunk |-> SoloChunk(ws[k + 1]), next |-> k + 3]

\* one iteration of the while loop at cursor k (0-based): the chunk appended
\* and the new cursor
ChunkAt(ws, k) ==
    LET current == ws[k + 1] IN
    IF ForcedSolo(current.word)
    THEN [chunk |-> SoloChunk(current), next |-> k + 1]
    ELSE IF k + 1 < Len(ws)
         THEN LET next_word == ws[k + 2] IN
              IF CanPair(current.word, next_word.word)
              THEN [chunk |-> PairChunk(current, next_word), next |-> k + 2]
              ELSE [chunk |-> SoloChunk(current), next |-> k + 1]
         ELSE [chunk |-> SoloChunk(current), next |-> k + 1]

\* the whole function, from cursor k with the chunks built so far
RECURSIVE ChunksFrom(_, _, _)
ChunksFrom(ws, k, acc) ==
    IF k < Len(ws)
    THEN ChunksFrom(ws, ChunkAt(ws, k).next, Append(acc, ChunkAt(ws, k).chunk))
    ELSE acc

CreateVoskChunks(ws) == ChunksFrom(ws, 0, <<>>)

-----------------------------------------------------------------------------
(* _format_time, tools.py:545-550 *)

DigitChars == <<"0","1","2","3","4","5","6","7","8","9">>

\* str(n) for n >= 0
RECURSIVE Str(_)
Str(n) ==
    IF n < 10 THEN <<DigitChars[n + 1]>>
    ELSE Str(n \div 10) \o <<DigitChars[(n % 10) + 1]>>

\* the format spec 0<width>d: left-padded with zeros to at least width
RECURSIVE ZeroPad(_, _)
ZeroPad(s, width) == IF Len(s) >= width THEN s ELSE ZeroPad(<<"0">> \o s, width)

\* tools.py:546  h = int(seconds // 3600)
Hours(t) == t \div 3600000
\* the minutes without the reduction modulo one hour
MinutesOfTotal(t) == t \div 60000

\* tools.py:547  m = int((seconds % 3600) // 60)
Minutes(t) == (t % 3600000) \div 60000
\* tools.py:548  s = int(seconds % 60)
Secs(t) == (t % 60000) \div 1000
\* tools.py:549  ms = int((seconds % 1) * 1000)
Millis(t) == t % 1000

\* tools.py:550  f"{h:02d}:{m:02d}:{s:02d},{ms:03d}"
FormatTime(t) ==
    ZeroPad(Str(Hours(t)), 2) \o <<":">> \o ZeroPad(Str(Minutes(t)), 2) \o <<":">>
        \o ZeroPad(Str(Secs(t)), 2) \o <<",">> \o ZeroPad(Str(Millis(t)), 3)

-----------------------------------------------------------------------------
(* the cue loop of _generate_vosk_subtitles, tools.py:506-510 *)

NL == "\n"
Arrow == <<" ","-","-",">"," ">>
FontOpen ==
    <<"<","f","o","n","t"," ","c","o","l","o","r","=","'","#","F","F","F","F","0","0","'",">">>
FontClose == <<"<","/","f","o","n","t",">">>

\* whitespace removed by str.strip()
Whitespace == {" ", NL, "\t", "\r"}

RECURSIVE LStrip(_)
LStrip(s) == IF s # <<>> /\ Head(s) \in Whitespace THEN LStrip(Tail(s)) ELSE s

RECURSIVE RStrip(_)
RStrip(s) ==
    IF s # <<>> /\ s[Len(s)] \in Whitespace THEN RStrip(SubSeq(s, 1, Len(s) - 1)) ELSE s

\* str.strip()
Strip(s) == RStrip(LStrip(s))

\* enumerate(word_chunks) without the start argument
CueIndexFromZero(k) == k - 1

\* tools.py:507  enumerate(word_chunks, 1): the number of the k-th chunk (k from 1)
CueIndex(k) == k

\* tools.py:508  the text appended for one chunk
CueBlock(k, chunk) ==
    Str(CueIndex(k)) \o <<NL>>
        \o FormatTime(chunk.start) \o Arrow \o FormatTime(chunk.end) \o <<NL>>
        \o FontOpen \o chunk.text \o FontClose \o <<NL, NL>>

\* tools.py:506-510  srt = "" ; for ... srt += ... ; return srt.strip()
RenderSrt(word_chunks) ==
    Strip(Flatten([k \in 1..Len(word_chunks) |-> CueBlock(k, word_chunks[k])]))

-----------------------------------------------------------------------------
(* Job threads and the shared filesystem *)

\* web_app.py:575  one thread per video creation request
Jobs == {"job1", "job2"}

\* web_app.py:560  job_id = str(uuid.uuid4())
JobId(j) ==
    IF j = "job1"
    THEN <<"3","f","2","a","9","c","1","e","-","7","b","4","4">>
    ELSE <<"a","0","6","d","5","5","e","8","-","1","c","9","0">>

\* topics a request may carry (web_app.py:539)
TopicCats == <<"c","a","t","s">>
TopicCatsBang == <<"c","a","t","s","!">>
TopicDogs == <<"d","o","g","s">>
TopicMyCat == <<"m","y"," ","-"," ","c","a","t">>
Topics == {TopicCats, TopicCatsBang, TopicDogs, TopicMyCat}

\* int(time.time()) at the instants a configuration may be built
ClockSeconds == {1700000000, 1700000001}
StartSecond == CHOOSE t \in ClockSeconds : \A u \in ClockSeconds : t <= u

\* the characters matched by \w
WordChars ==
    {"a","b","c","d","e","f","g","h","i","j","k","l","m","n","o","p","q","r","s",
     "t","u","v","w","x","y","z","0","1","2","3","4","5","6","7","8","9","_"}
\* the characters matched by [-\s]
Separators == Whitespace \cup {"-"}

\* config.py:20  the slice [:30]
TopicLimit == 30
\* config.py:26  the slice [:8]
JobIdLimit == 8

\* s[:n]
Take(s, n) == SubSeq(s, 1, IF Len(s) < n THEN Len(s) ELSE n)

\* config.py:19  re.sub(r'[^\w\s-]', '', topic)
RECURSIVE RemoveSpecial(_)
RemoveSpecial(s) ==
    IF s = <<>> THEN <<>>
    ELSE IF Head(s) \in WordChars \cup Separators
         THEN <<Head(s)>> \o RemoveSpecial(Tail(s))
         ELSE RemoveSpecial(Tail(s))

RECURSIVE SkipSeparators(_)
SkipSeparators(s) ==
    IF s # <<>> /\ Head(s) \in Separators THEN SkipSeparators(Tail(s)) ELSE s

\* config.py:20  re.sub(r'[-\s]+', '_', safe_topic)
RECURSIVE CollapseSeparators(_)
CollapseSeparators(s) ==
    IF s = <<>> THEN <<>>
    ELSE IF Head(s) \in Separators
         THEN <<"_">> \o CollapseSeparators(SkipSeparators(s))
         ELSE <<Head(s)>> \o CollapseSeparators(Tail(s))

\* config.py:19-20  safe_topic
SafeTopic(topic) == Take(CollapseSeparators(Strip(RemoveSpecial(topic))), TopicLimit)

\* config.py:17-29  Config.__init__: _session_id
SessionId(topic, job_id, now) ==
    IF topic # <<>> THEN SafeTopic(topic) \o <<"_">> \o Str(now)
    ELSE IF job_id # <<>> THEN Take(job_id, JobIdLimit)
    ELSE Str(now)

\* the session ids of the jobs followed through the pipeline: job1 is about
\* cats, job2 about cats or dogs, and both are configured in the same second
CatsSession == SessionId(TopicCats, JobId("job1"), StartSecond)
SessionIds == {CatsSession, SessionId(TopicDogs, JobId("job2"), StartSecond)}

\* paths, as <<directory, name, suffix>>
\* tools.py:448  temp_wav
TempWav == <<"./output/", <<"t","e","m","p","_","v","o","s","k">>, ".wav">>
\* tools.py:416  safe_dir
SafeDir == <<"./", <<"t","e","m","p","_","s","r","t">>, "">>
\* tools.py:417  safe_path
SafePath == <<"./temp_srt/", <<"s","u","b","s">>, ".srt">>
\* config.py:37-39  SCRIPT_OUTPUT_PATH
ScriptOutputPath(session) == <<"./scripts/", session, "_script.srt">>
\* config.py:41-43  AUDIO_OUTPUT_PATH
AudioOutputPath(session) == <<"./audio/", session, "_narration.wav">>
\* config.py:45-47  FINAL_OUTPUT_PATH
FinalOutputPath(session) == <<"./output/", session, "_tiktok.mp4">>

Paths ==
    {TempWav, SafeDir, SafePath}
        \cup {ScriptOutputPath(x) : x \in SessionIds}
        \cup {AudioOutputPath(x) : x \in SessionIds}
        \cup {FinalOutputPath(x) : x \in SessionIds}

\* file contents: the kind of file, the job that wrote it, the job whose
\* data it was derived from, (for captions) the text, and (for videos) the
\* rank of the modification time among the videos written
NoFile == [kind |-> "none", owner |-> "", from |-> "", text |-> <<>>, mtime |-> 0]
Dir == [kind |-> "dir", owner |-> "", from |-> "", text |-> <<>>, mtime |-> 0]
Audio(j) == [kind |-> "audio", owner |-> j, from |-> j, text |-> <<>>, mtime |-> 0]
Wav(j, source) ==
    [kind |-> "wav", owner |-> j, from |-> source.from, text |-> <<>>, mtime |-> 0]
Caption(j, text) == [kind |-> "srt", owner |-> j, from |-> j, text |-> text, mtime |-> 0]
Video(j, subs, mtime) ==
    [kind |-> "video", owner |-> j, from |-> subs.owner, text |-> subs.text,
     mtime |-> mtime]

\* os.path.exists
Exists(path) == fs[path] # NoFile

\* the locals of a job thread that has not started
IdleJob ==
    [pc |-> "idle", topic |-> <<>>, session |-> <<>>, frames |-> 0, wav |-> NoFile, heard |-> 0,
     recognised |-> FALSE, words |-> <<>>, subtitles |-> <<>>,
     returncode |-> -1, subsRead |-> NoFile, error |-> "", result |-> <<>>,
     scriptWrites |-> 0, safeWrites |-> 0, compositorRuns |-> 0,
     resampleRc |-> -1, recognizer |-> FALSE, stderr |-> <<>>, detail |-> <<>>,
     removeFailed |-> FALSE, rmdirFailed |-> FALSE, outputSeen |-> "unchecked",
     stages |-> <<>>, status |-> "pending", jobError |-> "", video_path |-> <<>>,
     results |-> <<>>]

\* web_app.py:42-53  VideoCreationJob.__init__
NewVideoJob == [status |-> "pending", progress |-> 0, current_stage |-> ""]

WebIdle ==
    /\ video_job = NewVideoJob
    /\ worker = "idle"
    /\ progress_thread = [pc |-> "idle", k |-> 1]

\* the threads that use the config proxy: the web job threads and a thread
\* that never registers a config (main.py:77 runs the pipeline in the main thread)
MainThread == "MainThread"
Threads == Jobs \cup {MainThread}

\* config.py:196  _thread_configs = {} ; NoConfig marks an absent key
NoConfig == <<>>

IdleCaller == [pc |-> "idle", got |-> NoConfig, first |-> <<>>, last |-> <<>>,
               status |-> "pending"]

ConfigIdle ==
    /\ thread_configs = [t \in Threads |-> NoConfig]
    /\ caller = [t \in Threads |-> IdleCaller]

\* no value returned yet
NoResult == [kind |-> "unset"]

IdleScript == [pc |-> "idle", attempt |-> 0, invocations |-> 0, outcomes |-> <<>>,
               response |-> "", result |-> NoResult]

ScriptIdle == script = IdleScript

ServicesIdle == WebIdle /\ ConfigIdle /\ ScriptIdle

PipelineIdle ==
    /\ clock = StartSecond
    /\ job = [j \in Jobs |-> IdleJob]
    /\ fs = [p \in Paths |-> NoFile]

ChunkerIdle ==
    /\ words_with_time = <<>>
    /\ i = 0
    /\ chunks = <<>>
    /\ srt = <<>>
    /\ pc = "idle"
    /\ error = ""
    /\ seconds = 0
    /\ timeStr = <<>>

-----------------------------------------------------------------------------
(* The chunker and the formatter, driven from the collected word list:      *)
(* _generate_vosk_subtitles from line 501 on.                               *)

NoWordsMessage == "Vosk detected no words with timestamps"

\* tools.py:501  if not words_with_time
NoWords(ws) == ws = <<>>

InitChunker ==
    /\ words_with_time \in WordLists
    /\ i = 0
    /\ chunks = <<>>
    /\ srt = <<>>
    /\ pc = "check_words"
    /\ error = ""
    /\ seconds = 0
    /\ timeStr = <<>>
    /\ PipelineIdle
    /\ ServicesIdle

\* tools.py:501-502  raise Exception("Vosk detected no words with timestamps")
RaiseNoWords ==
    /\ pc = "check_words"
    /\ NoWords(words_with_time)
    /\ pc' = "raised"
    /\ error' = NoWordsMessage
    /\ UNCHANGED <<words_with_time, i, chunks, srt, seconds, timeStr, job, fs, clock, webVars, configVars, scriptVars>>

\* tools.py:504, 513-514  the call of _create_vosk_chunks: chunks = [], i = 0
CallChunker ==
    /\ pc = "check_words"
    /\ ~NoWords(words_with_time)
    /\ chunks' = <<>>
    /\ i' = 0
    /\ pc' = "chunking"
    /\ UNCHANGED <<words_with_time, srt, error, seconds, timeStr, job, fs, clock, webVars, configVars, scriptVars>>

\* tools.py:516-541  one iteration of the while loop
ChunkLoop ==
    /\ pc = "chunking"
    /\ i < Len(words_with_time)
    /\ chunks' = Append(chunks, ChunkAt(words_with_time, i).chunk)
    /\ i' = ChunkAt(words_with_time, i).next
    /\ UNCHANGED <<words_with_time, srt, pc, error, seconds, timeStr, job, fs, clock, webVars, configVars, scriptVars>>

\* tools.py:516, 543  the loop condition fails: return chunks
ChunkReturn ==
    /\ pc = "chunking"
    /\ ~(i < Len(words_with_time))
    /\ pc' = "chunked"
    /\ UNCHANGED <<words_with_time, i, chunks, srt, error, seconds, timeStr, job, fs, clock, webVars, configVars, scriptVars>>

\* tools.py:506-510  render the cues and return the stripped text
FormatCues ==
    /\ pc = "chunked"
    /\ srt' = RenderSrt(chunks)
    /\ pc' = "formatted"
    /\ UNCHANGED <<words_with_time, i, chunks, error, seconds, timeStr, job, fs, clock, webVars, configVars, scriptVars>>

NextChunker ==
    \/ RaiseNoWords
    \/ CallChunker
    \/ ChunkLoop
    \/ ChunkReturn
    \/ FormatCues

SpecChunker == InitChunker /\ [][NextChunker]_vars

-----------------------------------------------------------------------------
(* _create_vosk_chunks called on any word list, the empty one included      *)
(* (SpecChunkerCall)                                                        *)

\* tools.py:512-514  def _create_vosk_chunks(self, words): chunks = [], i = 0
InitChunkerCall ==
    /\ words_with_time \in WordLists
    /\ i = 0
    /\ chunks = <<>>
    /\ srt = <<>>
    /\ pc = "chunking"
    /\ error = ""
    /\ seconds = 0
    /\ timeStr = <<>>
    /\ PipelineIdle
    /\ ServicesIdle

NextChunkerCall == ChunkLoop \/ ChunkReturn

\* the thread that called the function keeps running it
SpecChunkerCall ==
    InitChunkerCall /\ [][NextChunkerCall]_vars /\ WF_vars(NextChunkerCall)

-----------------------------------------------------------------------------
(* Properties of the chunker and the formatter (SpecChunker) *)

\* _create_vosk_chunks has returned
Returned == pc \in {"chunked", "formatted"}

WordTexts(ws) == [k \in 1..Len(ws) |-> ws[k].word]

\* the words of a chunk: its text split on the joining space
ChunkWords(chunk) == Split(chunk.text, " ")

\* the words of all chunks, in chunk order
Covered(cs) == Flatten([j \in 1..Len(cs) |-> ChunkWords(cs[j])])

\* position in the input (from 1) of the first word of chunk j
RECURSIVE FirstPos(_, _)
FirstPos(cs, j) ==
    IF j = 1 THEN 1 ELSE FirstPos(cs, j - 1) + Len(ChunkWords(cs[j - 1]))

IsPunct(w) == EndsWith(w, {".", "!", "?", ",", ";", ":"})

\* C1: the words of the returned chunks, in chunk order, are exactly the
\* input words in input order: none dropped, none duplicated.
ChunksCoverWords ==
    (Returned /\ words_with_time # <<>>)
        => Covered(chunks) = WordTexts(words_with_time)

ChunksCoverWordsWitness ==
    /\ Returned
    /\ Len(words_with_time) = 3
    /\ Len(chunks) = 2

ExampleWords ==
    << [word |-> Hello,         start |-> 0,    end |-> 500],
       [word |-> WorldComma,    start |-> 600,  end |-> 1000],
       [word |-> Extraordinary, start |-> 1100, end |-> 2000] >>

\* C2 as stated: the example input yields the two chunks
\* ("Hello world,", 0.0, 1.0) and ("extraordinary", 1.1, 2.0).
ExampleYieldsTwoChunks ==
    (Returned /\ words_with_time = ExampleWords)
        => chunks = << [text |-> Hello \o <<" ">> \o WorldComma,
                        start |-> 0, end |-> 1000],
                       [text |-> Extraordinary, start |-> 1100, end |-> 2000] >>

\* C2 amended: the example input yields three single-word chunks, each with
\* the times of its word ("world," has 6 characters, so "Hello" is not merged).
ExampleYieldsThreeChunks ==
    (Returned /\ words_with_time = ExampleWords)
        => chunks = << [text |-> Hello, start |-> 0, end |-> 500],
                       [text |-> WorldComma, start |-> 600, end |-> 1000],
                       [text |-> Extraordinary, start |-> 1100, end |-> 2000] >>

ExampleWitness == Returned /\ words_with_time = ExampleWords

\* C3 as stated: a word ending in . ! ? , ; : is always alone in its chunk.
PunctWordAlwaysSolo ==
    Returned =>
        \A j \in 1..Len(chunks) :
            \A n \in 1..Len(ChunkWords(chunks[j])) :
                IsPunct(ChunkWords(chunks[j])[n]) => Len(ChunkWords(chunks[j])) = 1

\* C3 amended: a word ending in . ! ? , ; : at the cursor (the first word of
\* its chunk) is the only word of the chunk; such a word is the second word
\* of a two-word chunk only when both words have at most 5 characters.
PunctWordNeverLeadsPair ==
    Returned =>
        \A j \in 1..Len(chunks) :
            LET cw == ChunkWords(chunks[j]) IN
            /\ IsPunct(cw[1]) => Len(cw) = 1
            /\ (Len(cw) = 2 /\ IsPunct(cw[2])) => (Len(cw[1]) <= 5 /\ Len(cw[2]) <= 5)

\* a punctuated short word at the cursor with a short word after it, and a
\* punctuated word absorbed as the second word of a pair
PunctWordWitness ==
    /\ Returned
    /\ \E j \in 1..Len(chunks) :
          /\ IsPunct(ChunkWords(chunks[j])[1])
          /\ Len(ChunkWords(chunks[j])[1]) <= 5
          /\ FirstPos(chunks, j) < Len(words_with_time)
          /\ Len(words_with_time[FirstPos(chunks, j) + 1].word) <= 5
    /\ \E j \in 1..Len(chunks) :
          Len(ChunkWords(chunks[j])) = 2 /\ IsPunct(ChunkWords(chunks[j])[2])

\* C4: a word of more than 7 characters is the only word of its chunk.
LongWordIsSolo ==
    Returned =>
        \A j \in 1..Len(chunks) :
            \A n \in 1..Len(ChunkWords(chunks[j])) :
                Len(ChunkWords(chunks[j])[n]) > 7 => Len(ChunkWords(chunks[j])) = 1

\* a long word right after a short plain word at the cursor, and a long word
\* at the cursor with a short word after it
LongWordWitness ==
    /\ Returned
    /\ \E j \in 1..Len(chunks) - 1 :
          /\ Len(chunks[j].text) <= 5
          /\ ~IsPunct(chunks[j].text)
          /\ Len(chunks[j + 1].text) > 7
    /\ \E j \in 1..Len(chunks) - 1 :
          /\ Len(ChunkWords(chunks[j])[1]) > 7
          /\ Len(ChunkWords(chunks[j + 1])[1]) <= 5

\* words k and k+1 are both short and word k neither punctuated nor long
ShortPairAt(ws, k) ==
    /\ Len(ws[k].word) <= 5
    /\ Len(ws[k + 1].word) <= 5
    /\ ~IsPunct(ws[k].word)
    /\ ~(Len(ws[k].word) > 7)

\* some chunk is the pair of words k and k+1
PairChunkAt(cs, ws, k) ==
    \E j \in 1..Len(cs) :
        /\ FirstPos(cs, j) = k
        /\ ChunkWords(cs[j]) = <<ws[k].word, ws[k + 1].word>>

\* C5 as stated: any two consecutive short words, the first unpunctuated,
\* form one two-word chunk of the output.
AdjacentShortWordsMerge ==
    Returned =>
        \A k \in 1..Len(words_with_time) - 1 :
            ShortPairAt(words_with_time, k) => PairChunkAt(chunks, words_with_time, k)

\* C5 amended: the same, when word k is the first word of a chunk (the
\* cursor reaches it: it was not absorbed as the second word of the pair
\* before it).
AdjacentShortWordsMergeAtCursor ==
    Returned =>
        \A k \in 1..Len(words_with_time) - 1 :
            (/\ ShortPairAt(words_with_time, k)
             /\ \E j \in 1..Len(chunks) : FirstPos(chunks, j) = k)
                => PairChunkAt(chunks, words_with_time, k)

\* a short pair merged at a cursor position other than the first
AdjacentShortWordsWitness ==
    /\ Returned
    /\ \E k \in 2..Len(words_with_time) - 1 :
          /\ ShortPairAt(words_with_time, k)
          /\ PairChunkAt(chunks, words_with_time, k)

\* C6: every chunk emitted so far holds exactly 1 or 2 words, each of them
\* non-empty.
ChunkHasOneOrTwoWords ==
    \A j \in 1..Len(chunks) :
        /\ Len(ChunkWords(chunks[j])) \in {1, 2}
        /\ \A n \in 1..Len(ChunkWords(chunks[j])) : ChunkWords(chunks[j])[n] # <<>>

ChunkHasOneOrTwoWordsWitness ==
    /\ pc = "chunking"
    /\ i = Len(words_with_time)
    /\ \E j \in 1..Len(chunks) : Len(ChunkWords(chunks[j])) = 1
    /\ \E j \in 1..Len(chunks) : Len(ChunkWords(chunks[j])) = 2

\* end >= start >= 0 for every word, and start times do not decrease
InputTimesValid(ws) ==
    /\ \A k \in 1..Len(ws) : ws[k].end >= ws[k].start /\ ws[k].start >= 0
    /\ \A k \in 1..Len(ws) - 1 : ws[k + 1].start >= ws[k].start

\* C7: for input words that are well formed and ordered in time, every chunk
\* has end >= start and the chunk starts do not decrease.
ChunkTimesOrdered ==
    (Returned /\ InputTimesValid(words_with_time)) =>
        /\ \A j \in 1..Len(chunks) : chunks[j].end >= chunks[j].start
        /\ \A j \in 1..Len(chunks) - 1 : chunks[j + 1].start >= chunks[j].start

ChunkTimesOrderedWitness ==
    /\ Returned
    /\ InputTimesValid(words_with_time)
    /\ Len(words_with_time) = 3
    /\ words_with_time[3].start > words_with_time[1].start
    /\ \E j \in 1..Len(chunks) : Len(ChunkWords(chunks[j])) = 2

IsDigits(s) == s # <<>> /\ \A k \in 1..Len(s) : \E d \in 1..10 : DigitChars[d] = s[k]

\* int(s) for a string of decimal digits
RECURSIVE ParseInt(_)
ParseInt(s) ==
    IF s = <<>> THEN 0
    ELSE 10 * ParseInt(SubSeq(s, 1, Len(s) - 1))
            + ((CHOOSE d \in 1..10 : DigitChars[d] = s[Len(s)]) - 1)

\* the cue blocks of a caption text: its lines, grouped at the blank lines
CueBlocks(text) == Split(Split(text, NL), <<>>)

\* C8: the caption text holds one cue block per chunk, in chunk order, the
\* k-th block numbered k and carrying the k-th chunk's times and text.
CuesMatchChunks ==
    pc = "formatted" =>
        LET blocks == CueBlocks(srt) IN
        /\ Len(blocks) = Len(chunks)
        /\ \A k \in 1..Len(blocks) :
              /\ Len(blocks[k]) = 3
              /\ IsDigits(blocks[k][1])
              /\ ParseInt(blocks[k][1]) = k
              /\ blocks[k][2] =
                    FormatTime(chunks[k].start) \o Arrow \o FormatTime(chunks[k].end)
              /\ blocks[k][3] = FontOpen \o chunks[k].text \o FontClose

CuesMatchChunksWitness ==
    /\ pc = "formatted"
    /\ Len(chunks) = 3
    /\ Len(CueBlocks(srt)) = 3

-----------------------------------------------------------------------------
(* _format_time called on its own (SpecFormatTime) *)

MinuteSamples == {0, 9, 10, 59}
SecondSamples == {0, 1, 59}
MilliSamples  == {0, 9, 99, 250, 999}

\* time values in milliseconds
TimeSamples ==
    {((h * 60 + m) * 60 + sec) * 1000 + ms :
        h \in 0..MaxHours, m \in MinuteSamples, sec \in SecondSamples, ms \in MilliSamples}

InitFormatTime ==
    /\ seconds \in TimeSamples
    /\ timeStr = <<>>
    /\ pc = "format_time"
    /\ words_with_time = <<>>
    /\ i = 0
    /\ chunks = <<>>
    /\ srt = <<>>
    /\ error = ""
    /\ PipelineIdle
    /\ ServicesIdle

\* tools.py:545-550  the call of _format_time(seconds)
CallFormatTime ==
    /\ pc = "format_time"
    /\ timeStr' = FormatTime(seconds)
    /\ pc' = "time_formatted"
    /\ UNCHANGED <<words_with_time, i, chunks, srt, error, seconds, job, fs, clock, webVars, configVars, scriptVars>>

NextFormatTime == CallFormatTime

SpecFormatTime == InitFormatTime /\ [][NextFormatTime]_vars

\* the fields of a time string: hours, minutes, seconds, milliseconds
TimeFields(str) ==
    LET byColon == Split(str, ":") IN
    IF Len(byColon) # 3 THEN <<>>
    ELSE LET byComma == Split(byColon[3], ",") IN
         IF Len(byComma) # 2 THEN <<>>
         ELSE <<byColon[1], byColon[2], byComma[1], byComma[2]>>

\* minutes, seconds and milliseconds are 2, 2 and 3 digits, below 60, 60, 1000
LowFieldsShaped(f) ==
    /\ Len(f) = 4
    /\ \A n \in 1..4 : IsDigits(f[n])
    /\ Len(f[2]) = 2 /\ ParseInt(f[2]) < 60
    /\ Len(f[3]) = 2 /\ ParseInt(f[3]) < 60
    /\ Len(f[4]) = 3 /\ ParseInt(f[4]) < 1000

\* C9 as stated: every non-negative time formats to HH:MM:SS,mmm with
\* exactly 2, 2, 2 and 3 digits, minutes and seconds below 60.
TimeStringShape ==
    pc = "time_formatted" =>
        /\ LowFieldsShaped(TimeFields(timeStr))
        /\ Len(TimeFields(timeStr)[1]) = 2

\* C9 amended: the minutes, seconds and milliseconds fields always have 2, 2
\* and 3 digits with minutes and seconds below 60; the hours field has
\* exactly 2 digits when the time is below 100 hours, and more from there on.
TimeStringShapeBelow100h ==
    pc = "time_formatted" =>
        /\ LowFieldsShaped(TimeFields(timeStr))
        /\ (Len(TimeFields(timeStr)[1]) = 2) <=> (seconds < 100 * 3600 * 1000)

TimeStringWitness ==
    /\ pc = "time_formatted"
    /\ seconds = ((1 * 60 + 59) * 60 + 59) * 1000 + 250
    /\ timeStr = <<"0","1",":","5","9",":","5","9",",","2","5","0">>

-----------------------------------------------------------------------------
(* VideoProductionTool._run for concurrent jobs (SpecPipeline):             *)
(* _create_narration, then _create_video_with_subtitles with                *)
(* _generate_vosk_subtitles, one action per filesystem or subprocess step.  *)

\* what the narration of each job says: the words the recognizer can find
Spoken(j) ==
    IF j = "job1"
    THEN << [word |-> Hello,  start |-> 0,   end |-> 500],
            [word |-> GoBang, start |-> 600, end |-> 1000] >>
    ELSE << [word |-> Content, start |-> 0,   end |-> 500],
            [word |-> Hello,   start |-> 600, end |-> 1000] >>

TtsFailedMessage == "TTS failed to generate valid audio file"
ConvertFailedMessage == "Failed to convert audio for Vosk processing"
NoModelMessage == "No Vosk model found. Download from https://alphacephei.com/vosk/models"
FileNotFoundMessage == "[Errno 2] No such file or directory"
TimeoutMessage == "Command timed out after 180 seconds"
\* tools.py:443  the text before the interpolated error_msg
FfmpegFailedMessage == "FFmpeg failed to create video: "
\* tools.py:442  the text used when stderr is empty
UnknownFfmpegError ==
    <<"U","n","k","n","o","w","n"," ","F","F","m","p","e","g"," ","e","r","r","o","r">>

\* the job's locals after an exception left the pipeline with message msg
Raised(j, msg) == [job[j] EXCEPT !.pc = "raised", !.error = msg]

\* the stages of one run, in the order of tools.py:407-445 and 447-510
StageOrder ==
    <<"resample", "recognize", "chunk", "format", "persist_primary",
      "persist_working", "compositor", "cleanup">>

\* the stage record of job j once the named stage has ended
Ran(j, stage, ok) == Append(job[j].stages, [stage |-> stage, ok |-> ok])

\* the job's locals after the named stage raised msg
FailedIn(j, stage, msg) == [Raised(j, msg) EXCEPT !.stages = Ran(j, stage, FALSE)]

InitPipeline ==
    /\ ChunkerIdle
    /\ ServicesIdle
    /\ clock = StartSecond
    /\ fs = [p \in Paths |-> NoFile]
    /\ \E x \in SessionIds :
          job = [j \in Jobs |->
                    [IdleJob EXCEPT !.pc = "narrate",
                                    !.status = "processing",
                                    !.topic = IF j = "job1" \/ x = CatsSession
                                              THEN TopicCats ELSE TopicDogs,
                                    !.session = IF j = "job1" THEN CatsSession ELSE x]]

\* tools.py:371-393  _create_narration: the TTS writes the narration file
CreateNarration(j) ==
    /\ job[j].pc = "narrate"
    /\ \/ /\ fs' = [fs EXCEPT ![AudioOutputPath(job[j].session)] = Audio(j)]
          /\ job' = [job EXCEPT ![j].pc = "resample"]
       \/ /\ job' = [job EXCEPT ![j] = Raised(j, TtsFailedMessage)]
          /\ UNCHANGED fs
    /\ UNCHANGED <<chunkerVars, timeVars, clock, webVars, configVars, scriptVars>>

\* a driver that does not look at the exit code of the resampler
ResampleFailedNever(rc) == FALSE

\* tools.py:456  if result.returncode != 0
ResampleFailed(rc) == rc # 0

\* tools.py:448-457  ffmpeg resamples the narration into temp_wav
Resample(j) ==
    /\ job[j].pc = "resample"
    /\ \E rc \in {0, 1} :
          /\ IF rc = 0 /\ Exists(AudioOutputPath(job[j].session))
             THEN fs' = [fs EXCEPT ![TempWav] =
                                      Wav(j, fs[AudioOutputPath(job[j].session)])]
             ELSE UNCHANGED fs
          /\ IF ResampleFailed(rc)
             THEN job' = [job EXCEPT ![j] =
                             [FailedIn(j, "resample", ConvertFailedMessage)
                                 EXCEPT !.resampleRc = rc]]
             ELSE job' = [job EXCEPT ![j] =
                             [@ EXCEPT !.pc = "load_model",
                                       !.resampleRc = rc,
                                       !.stages = Ran(j, "resample", rc = 0)]]
    /\ UNCHANGED <<chunkerVars, timeVars, clock, webVars, configVars, scriptVars>>

\* tools.py:459-472  look for a Vosk model directory
LoadModel(j) ==
    /\ job[j].pc = "load_model"
    /\ \/ job' = [job EXCEPT ![j].pc = "open_wav"]
       \/ job' = [job EXCEPT ![j] = FailedIn(j, "recognize", NoModelMessage)]
    /\ UNCHANGED <<fs, chunkerVars, timeVars, clock, webVars, configVars, scriptVars>>

\* tools.py:474-477  create the recognizer, wave.open(temp_wav), words = []
OpenWav(j) ==
    /\ job[j].pc = "open_wav"
    /\ IF Exists(TempWav)
       THEN \E n \in 0..MaxFrames :
                job' = [job EXCEPT ![j] = [@ EXCEPT !.pc = "read_frames",
                                                    !.recognizer = TRUE,
                                                    !.wav = fs[TempWav],
                                                    !.frames = n,
                                                    !.heard = 0,
                                                    !.words = <<>>]]
       ELSE job' = [job EXCEPT ![j] =
                       [FailedIn(j, "recognize", FileNotFoundMessage)
                           EXCEPT !.recognizer = TRUE]]
    /\ UNCHANGED <<fs, chunkerVars, timeVars, clock, webVars, configVars, scriptVars>>

\* the next n words of the narration held by the open file
NextWords(j, n) == SubSeq(Spoken(job[j].wav.from), job[j].heard + 1, job[j].heard + n)

Unheard(j) == Len(Spoken(job[j].wav.from)) - job[j].heard

\* a collection that puts the new words before the old ones
ExtendWordsInFront(words, batch) == batch \o words

\* tools.py:485-489, 493-496  words_with_time.append(...) for each word of
\* one Result() or FinalResult()
ExtendWords(words, batch) == words \o batch

\* the Result() and FinalResult() values read so far by job j, with the one
\* now read (they are forgotten when _generate_vosk_subtitles is left)
Read(j, kind, batch) == Append(job[j].results, [kind |-> kind, words |-> batch])

\* tools.py:479-489  one non-empty readframes() and AcceptWaveform()
AcceptWaveform(j) ==
    /\ job[j].pc = "read_frames"
    /\ job[j].frames > 0
    /\ \/ \* AcceptWaveform returns False, or Result() has no "result"
          job' = [job EXCEPT ![j].frames = @ - 1]
       \/ \* Result() holds words
          \E n \in 1..Unheard(j) :
              job' = [job EXCEPT ![j] =
                         [@ EXCEPT !.frames = @ - 1,
                                   !.heard = @ + n,
                                   !.results = Read(j, "partial", NextWords(j, n)),
                                   !.words = ExtendWords(@, NextWords(j, n))]]
    /\ UNCHANGED <<fs, chunkerVars, timeVars, clock, webVars, configVars, scriptVars>>

\* tools.py:480-482, 491-498  readframes() is empty: FinalResult(), wf.close()
FinalResult(j) ==
    /\ job[j].pc = "read_frames"
    /\ job[j].frames = 0
    /\ \E n \in 0..Unheard(j) :
          job' = [job EXCEPT ![j] =
                     [@ EXCEPT !.pc = "remove_wav",
                               !.recognised = TRUE,
                               !.heard = @ + n,
                               !.results = Read(j, "final", NextWords(j, n)),
                               !.words = ExtendWords(@, NextWords(j, n))]]
    /\ UNCHANGED <<fs, chunkerVars, timeVars, clock, webVars, configVars, scriptVars>>

\* tools.py:499  os.remove(temp_wav)
RemoveWav(j) ==
    /\ job[j].pc = "remove_wav"
    /\ IF Exists(TempWav)
       THEN /\ fs' = [fs EXCEPT ![TempWav] = NoFile]
            /\ job' = [job EXCEPT ![j].pc = "check_words"]
       ELSE /\ job' = [job EXCEPT ![j] =
                          [FailedIn(j, "recognize", FileNotFoundMessage)
                              EXCEPT !.results = <<>>]]
            /\ UNCHANGED fs
    /\ UNCHANGED <<chunkerVars, timeVars, clock, webVars, configVars, scriptVars>>

\* tools.py:501-502  no words: raise
JobRaiseNoWords(j) ==
    /\ job[j].pc = "check_words"
    /\ NoWords(job[j].words)
    /\ job' = [job EXCEPT ![j] =
                  [FailedIn(j, "recognize", NoWordsMessage) EXCEPT !.results = <<>>]]
    /\ UNCHANGED <<fs, chunkerVars, timeVars, clock, webVars, configVars, scriptVars>>

\* tools.py:504-510  chunk the words and render the caption text
RenderSubtitles(j) ==
    /\ job[j].pc = "check_words"
    /\ ~NoWords(job[j].words)
    /\ job' = [job EXCEPT ![j] =
                  [@ EXCEPT !.pc = "write_script",
                            !.subtitles = RenderSrt(CreateVoskChunks(job[j].words)),
                            !.results = <<>>,
                            !.stages = @ \o <<[stage |-> "recognize", ok |-> TRUE],
                                              [stage |-> "chunk", ok |-> TRUE],
                                              [stage |-> "format", ok |-> TRUE]>>]]
    /\ UNCHANGED <<fs, chunkerVars, timeVars, clock, webVars, configVars, scriptVars>>

\* tools.py:412-414  write the primary caption file
WriteScript(j) ==
    /\ job[j].pc = "write_script"
    /\ fs' = [fs EXCEPT ![ScriptOutputPath(job[j].session)] = Caption(j, job[j].subtitles)]
    /\ job' = [job EXCEPT ![j] = [@ EXCEPT !.pc = "make_safe_dir",
                                          !.scriptWrites = @ + 1,
                                          !.stages = Ran(j, "persist_primary", TRUE)]]
    /\ UNCHANGED <<chunkerVars, timeVars, clock, webVars, configVars, scriptVars>>

\* tools.py:416-418  os.makedirs(safe_dir, exist_ok=True)
MakeSafeDir(j) ==
    /\ job[j].pc = "make_safe_dir"
    /\ fs' = [fs EXCEPT ![SafeDir] = Dir]
    /\ job' = [job EXCEPT ![j].pc = "write_safe"]
    /\ UNCHANGED <<chunkerVars, timeVars, clock, webVars, configVars, scriptVars>>

\* tools.py:419-420  write the working copy
WriteSafe(j) ==
    /\ job[j].pc = "write_safe"
    /\ IF fs[SafeDir] = Dir
       THEN /\ fs' = [fs EXCEPT ![SafePath] = Caption(j, job[j].subtitles)]
            /\ job' = [job EXCEPT ![j] = [@ EXCEPT !.pc = "run_compositor",
                                                  !.safeWrites = @ + 1,
                                                  !.stages = Ran(j, "persist_working", TRUE)]]
       ELSE /\ job' = [job EXCEPT ![j] =
                          FailedIn(j, "persist_working", FileNotFoundMessage)]
            /\ UNCHANGED fs
    /\ UNCHANGED <<chunkerVars, timeVars, clock, webVars, configVars, scriptVars>>

\* tools.py:442  the slice [:200]
ExcerptLen == 200

\* what the compositor may leave on its standard error
ShortStderr == <<"b","a","d"," ","f","i","l","t","e","r">>
LongStderr == [k \in 1..(ExcerptLen + 1) |-> DigitChars[(k % 10) + 1]]
\* with exit 0 the usual report; with another exit code nothing, or a long trace
StderrSamples(returncode) ==
    IF returncode = 0 THEN {ShortStderr} ELSE {<<>>, LongStderr}

\* tools.py:442  result.stderr.decode(...)[:200]
Excerpt(stderr) == Take(stderr, ExcerptLen)

\* tools.py:442  error_msg
ErrorMsg(stderr) == IF stderr # <<>> THEN Excerpt(stderr) ELSE UnknownFfmpegError

\* a test of the exit code alone
CompositorFailedExitOnly(returncode, output_exists) == returncode # 0

\* tools.py:440  result.returncode != 0 or not os.path.exists(abs_output)
CompositorFailed(returncode, output_exists) == returncode # 0 \/ ~output_exists

\* the videos in ./output
Mp4Files == {p \in {FinalOutputPath(x) : x \in SessionIds} : Exists(p)}

\* the modification time of a file written now: later than every video's
Now == Cardinality(Mp4Files) + 1

\* tools.py:422-432  subprocess.run(ffmpeg ... subtitles='temp_srt/subs.srt' ...,
\* capture_output=True, timeout=180): the compositor reads the working copy
RunCompositor(j) ==
    /\ job[j].pc = "run_compositor"
    /\ \/ \* exit 0, output written
          /\ Exists(SafePath)
          /\ fs' = [fs EXCEPT ![FinalOutputPath(job[j].session)] =
                                   Video(j, fs[SafePath], Now)]
          /\ \E err \in StderrSamples(0) :
                job' = [job EXCEPT ![j] = [@ EXCEPT !.pc = "remove_safe",
                                                    !.compositorRuns = @ + 1,
                                                    !.subsRead = fs[SafePath],
                                                    !.returncode = 0,
                                                    !.stderr = err,
                                                    !.stages = Ran(j, "compositor", TRUE)]]
       \/ \* exit 0 or 1, nothing written
          /\ \E rc \in {0, 1} : \E err \in StderrSamples(rc) :
                job' = [job EXCEPT ![j] =
                           [@ EXCEPT !.pc = "remove_safe",
                                     !.compositorRuns = @ + 1,
                                     !.subsRead = fs[SafePath],
                                     !.returncode = rc,
                                     !.stderr = err,
                                     !.stages =
                                         Ran(j, "compositor",
                                             rc = 0 /\ Exists(FinalOutputPath(job[j].session)))]]
          /\ UNCHANGED fs
       \/ \* subprocess.TimeoutExpired leaves the function at tools.py:432
          /\ job' = [job EXCEPT ![j] =
                        [FailedIn(j, "compositor", TimeoutMessage)
                            EXCEPT !.compositorRuns = @ + 1,
                                   !.subsRead = fs[SafePath]]]
          /\ UNCHANGED fs
    /\ UNCHANGED <<chunkerVars, timeVars, clock, webVars, configVars, scriptVars>>

\* an error of the cleanup that leaves the function
CleanupErrorRaised(j, of_file) ==
    [FailedIn(j, "cleanup", FileNotFoundMessage)
        EXCEPT !.removeFailed = of_file, !.rmdirFailed = ~of_file]

\* tools.py:437-438  except: pass, for an error of os.remove (of_file) or of
\* os.rmdir
CleanupErrorIgnored(j, of_file) ==
    [job[j] EXCEPT !.pc = "check_result",
                   !.removeFailed = of_file,
                   !.rmdirFailed = ~of_file,
                   !.stages = Ran(j, "cleanup", FALSE)]

\* a cleanup that leaves the working copy where it is
RemoveSafeSkipped(j) ==
    /\ job[j].pc = "remove_safe"
    /\ job' = [job EXCEPT ![j] = [@ EXCEPT !.pc = "check_result",
                                          !.stages = Ran(j, "cleanup", TRUE)]]
    /\ UNCHANGED <<fs, chunkerVars, timeVars, clock, webVars, configVars, scriptVars>>

\* a cleanup that removes the primary caption file as well
RemoveSafeAndScript(j) ==
    /\ job[j].pc = "remove_safe"
    /\ fs' = [fs EXCEPT ![SafePath] = NoFile,
                        ![ScriptOutputPath(job[j].session)] = NoFile]
    /\ job' = [job EXCEPT ![j].pc = "rmdir_safe"]
    /\ UNCHANGED <<chunkerVars, timeVars, clock, webVars, configVars, scriptVars>>

\* tools.py:434-435, 437-438  os.remove(safe_path); on an error (the file is
\* missing, or the system refuses): pass
RemoveSafe(j) ==
    /\ job[j].pc = "remove_safe"
    /\ \/ /\ Exists(SafePath)
          /\ fs' = [fs EXCEPT ![SafePath] = NoFile]
          /\ job' = [job EXCEPT ![j].pc = "rmdir_safe"]
       \/ /\ job' = [job EXCEPT ![j] = CleanupErrorIgnored(j, TRUE)]
          /\ UNCHANGED fs
    /\ UNCHANGED <<chunkerVars, timeVars, clock, webVars, configVars, scriptVars>>

\* tools.py:436-438  os.rmdir(safe_dir); on an error (missing, not empty, or
\* the system refuses): pass
RemoveSafeDir(j) ==
    /\ job[j].pc = "rmdir_safe"
    /\ \/ /\ fs[SafeDir] = Dir
          /\ ~Exists(SafePath)
          /\ fs' = [fs EXCEPT ![SafeDir] = NoFile]
          /\ job' = [job EXCEPT ![j] = [@ EXCEPT !.pc = "check_result",
                                                !.stages = Ran(j, "cleanup", TRUE)]]
       \/ /\ job' = [job EXCEPT ![j] = CleanupErrorIgnored(j, FALSE)]
          /\ UNCHANGED fs
    /\ UNCHANGED <<chunkerVars, timeVars, clock, webVars, configVars, scriptVars>>

\* tools.py:440-445  raise on a failed compositor run, else return abs_output
CheckResult(j) ==
    /\ job[j].pc = "check_result"
    /\ LET output_exists == Exists(FinalOutputPath(job[j].session)) IN
       IF CompositorFailed(job[j].returncode, output_exists)
       THEN job' = [job EXCEPT ![j] =
                       [Raised(j, FfmpegFailedMessage)
                           EXCEPT !.detail = ErrorMsg(job[j].stderr),
                                  !.outputSeen = IF output_exists THEN "yes" ELSE "no"]]
       ELSE job' = [job EXCEPT ![j] = [@ EXCEPT !.pc = "returned",
                                                !.outputSeen =
                                                    IF output_exists THEN "yes" ELSE "no",
                                                !.result = FinalOutputPath(job[j].session)]]
    /\ UNCHANGED <<fs, chunkerVars, timeVars, clock, webVars, configVars, scriptVars>>

NotFoundMessage == "Video file not found after creation"

\* web_app.py:209-220  the path the agent's final text names, when the video
\* tool returned one (tools.py:355-363) and the file exists
CitedVideo(j, status, cites) ==
    IF status = "success" /\ cites /\ job[j].pc = "returned" /\ Exists(job[j].result)
    THEN {job[j].result}
    ELSE {}

\* web_app.py:231-243  the newest .mp4 in ./output written since the job began
\* (no earlier file exists: the jobs begin on an empty disk)
NewestVideo ==
    {p \in Mp4Files : \A q \in Mp4Files : fs[q].mtime <= fs[p].mtime}

\* web_app.py:206-243  video_path, as a set with at most one path
FoundVideo(j, status, cites) ==
    IF CitedVideo(j, status, cites) # {} THEN CitedVideo(j, status, cites)
    ELSE NewestVideo

\* tools.py:365-369 (_run turns the exception into the tool's JSON answer),
\* manager.py:128-183 (create_viral_video answers with status success or
\* error) and web_app.py:196-277 (the job is completed when a video file is
\* found, failed otherwise)
FinishJob(j) ==
    /\ job[j].pc \in {"raised", "returned"}
    /\ job[j].status = "processing"
    /\ \E status \in {"success", "error"}, cites \in BOOLEAN :
          IF FoundVideo(j, status, cites) # {}
          THEN \E p \in FoundVideo(j, status, cites) :
                   job' = [job EXCEPT ![j] = [@ EXCEPT !.status = "completed",
                                                       !.video_path = p]]
          ELSE job' = [job EXCEPT ![j] = [@ EXCEPT !.status = "failed",
                                                   !.jobError = NotFoundMessage]]
    /\ UNCHANGED <<fs, chunkerVars, timeVars, clock, webVars, configVars, scriptVars>>

NextPipeline ==
    \E j \in Jobs :
        \/ CreateNarration(j)
        \/ Resample(j)
        \/ LoadModel(j)
        \/ OpenWav(j)
        \/ AcceptWaveform(j)
        \/ FinalResult(j)
        \/ RemoveWav(j)
        \/ JobRaiseNoWords(j)
        \/ RenderSubtitles(j)
        \/ WriteScript(j)
        \/ MakeSafeDir(j)
        \/ WriteSafe(j)
        \/ RunCompositor(j)
        \/ RemoveSafe(j)
        \/ RemoveSafeDir(j)
        \/ CheckResult(j)
        \/ FinishJob(j)

SpecPipeline == InitPipeline /\ [][NextPipeline]_vars

-----------------------------------------------------------------------------
(* The configuration of concurrent jobs (SpecSession):                      *)
(* create_video_with_progress builds one Config per job thread.             *)

InitSession ==
    /\ ChunkerIdle
    /\ ServicesIdle
    /\ fs = [p \in Paths |-> NoFile]
    /\ clock = StartSecond
    /\ job \in [Jobs -> {[IdleJob EXCEPT !.pc = "pending", !.topic = t] : t \in Topics}]

\* a second passes
Tick ==
    /\ clock + 1 \in ClockSeconds
    /\ clock' = clock + 1
    /\ UNCHANGED <<job, fs, chunkerVars, timeVars, webVars, configVars, scriptVars>>

\* web_app.py:148-152  job_config = Config(topic=job.topic, job_id=job.job_id, ...)
Configure(j) ==
    /\ job[j].pc = "pending"
    /\ job' = [job EXCEPT ![j] =
                  [@ EXCEPT !.pc = "configured",
                            !.session = SessionId(job[j].topic, JobId(j), clock)]]
    /\ UNCHANGED <<fs, chunkerVars, timeVars, clock, webVars, configVars, scriptVars>>

NextSession == Tick \/ \E j \in Jobs : Configure(j)

SpecSession == InitSession /\ [][NextSession]_vars

-----------------------------------------------------------------------------
(* Properties of the pipeline (SpecPipeline) *)

\* the recognizer of job j has been run to the end and found no word
ZeroWords(j) == job[j].recognised /\ job[j].words = <<>>

Ended(j) == job[j].pc \in {"raised", "returned"}

\* C10: a job whose recognizer yields zero timed words writes neither the
\* primary caption file nor the working copy, never invokes the compositor,
\* and ends with the error "Vosk detected no words with timestamps".
NoTimingDataReported ==
    \A j \in Jobs :
        ZeroWords(j) =>
            /\ job[j].scriptWrites = 0
            /\ job[j].safeWrites = 0
            /\ job[j].compositorRuns = 0
            /\ Ended(j) => (job[j].pc = "raised" /\ job[j].error = NoWordsMessage)

\* C10, the part the code keeps: with zero words no caption file is written
\* and the compositor is not invoked, and the job ends with an exception,
\* which is the no-words error unless os.remove(temp_wav) failed first
\* (tools.py:499 precedes the test at tools.py:501).
NoTimingDataWritesNothing ==
    \A j \in Jobs :
        ZeroWords(j) =>
            /\ job[j].scriptWrites = 0
            /\ job[j].safeWrites = 0
            /\ job[j].compositorRuns = 0
            /\ Ended(j) =>
                  /\ job[j].pc = "raised"
                  /\ job[j].error \in {NoWordsMessage, FileNotFoundMessage}

\* a job ended with the no-words error while the other job wrote its captions
NoTimingDataWitness ==
    \E j \in Jobs :
        /\ ZeroWords(j)
        /\ job[j].pc = "raised"
        /\ job[j].error = NoWordsMessage
        /\ \E k \in Jobs \ {j} : job[k].safeWrites = 1

-----------------------------------------------------------------------------
(* The cleanup of the working copy (SpecPipeline) *)

\* job j ended with the error of tools.py:443
ReportedCompositorFailure(j) ==
    job[j].pc = "raised" /\ job[j].error = FfmpegFailedMessage

\* the working copy written by job j is still on disk
OwnWorkingCopyOnDisk(j) == fs[SafePath].owner = j

\* job j has run os.makedirs(safe_dir) (tools.py:418)
MadeSafeDir(j) == job[j].scriptWrites > 0 /\ job[j].pc # "make_safe_dir"

\* C11: when the compositor has returned a non-zero exit code, the job ends
\* with the compositor failure error, and at that time the working copy it
\* wrote is no longer on disk.
CompositorExitDeletesWorkingCopy ==
    \A j \in Jobs :
        (job[j].returncode > 0 /\ Ended(j)) =>
            /\ ReportedCompositorFailure(j)
            /\ ~OwnWorkingCopyOnDisk(j)

\* C11, as the code has it: after a non-zero exit the job ends with the
\* compositor failure error, and by then os.remove(safe_path) has been tried:
\* the working copy the job wrote is gone unless that call failed.
CompositorExitTriesCleanup ==
    \A j \in Jobs :
        (job[j].returncode > 0 /\ Ended(j)) =>
            /\ ReportedCompositorFailure(j)
            /\ OwnWorkingCopyOnDisk(j) => job[j].removeFailed

\* a job reported a non-zero exit after removing the working copy and its
\* directory
CompositorExitWitness ==
    \E j \in Jobs :
        /\ job[j].returncode = 1
        /\ ReportedCompositorFailure(j)
        /\ job[j].safeWrites = 1
        /\ ~job[j].removeFailed
        /\ ~job[j].rmdirFailed
        /\ ~Exists(SafePath)
        /\ ~Exists(SafeDir)

\* C12: once a job has written the working copy, however the compositor step
\* ends, by the time the job has returned or raised the working copy is off
\* the disk, and so is its directory unless the other job has made it too.
WorkingCopyRemovedOnEveryExit ==
    \A j \in Jobs :
        (job[j].safeWrites > 0 /\ Ended(j)) =>
            /\ ~OwnWorkingCopyOnDisk(j)
            /\ (\A k \in Jobs \ {j} : ~MadeSafeDir(k)) => ~Exists(SafeDir)

\* C13: the compositor of a job reads the working copy that this job wrote.
WorkingCopyIsPrivate ==
    \A j \in Jobs :
        job[j].compositorRuns > 0 => job[j].subsRead = Caption(j, job[j].subtitles)

-----------------------------------------------------------------------------
(* Session-scoped paths (SpecSession) *)

Configured(j) == job[j].pc = "configured"

\* C14: two jobs that run at the same time have different primary caption,
\* narration and final output paths, whatever their topics and the seconds
\* in which they were configured.
SessionPathsDistinct ==
    \A j, k \in Jobs :
        (j # k /\ Configured(j) /\ Configured(k)) =>
            /\ ScriptOutputPath(job[j].session) # ScriptOutputPath(job[k].session)
            /\ AudioOutputPath(job[j].session) # AudioOutputPath(job[k].session)
            /\ FinalOutputPath(job[j].session) # FinalOutputPath(job[k].session)

-----------------------------------------------------------------------------
(* Failures and their report (SpecPipeline) *)

\* the job thread of j has set the final status (web_app.py:245-277)
Finished(j) == job[j].status \in {"completed", "failed"}

\* the messages of NoTimingData, ResamplingFailure and CompositorFailure
FatalMessages == {NoWordsMessage, ConvertFailedMessage, FfmpegFailedMessage}

\* C15: a job in which the subtitle subsystem raised NoTimingData,
\* ResamplingFailure or CompositorFailure ends with status failed and with
\* that failure's text in its error field, never with status completed.
FatalErrorFailsJob ==
    \A j \in Jobs :
        (job[j].pc = "raised" /\ job[j].error \in FatalMessages /\ Finished(j)) =>
            /\ job[j].status = "failed"
            /\ job[j].jobError = job[j].error

\* C16: when the resampler exits with a non-zero code the run ends at once
\* with the conversion error: no recognizer is created or fed, no word is
\* collected, no caption text is made and no caption file is written.
ResampleFailureStopsRun ==
    \A j \in Jobs :
        job[j].resampleRc > 0 =>
            /\ job[j].pc = "raised"
            /\ job[j].error = ConvertFailedMessage
            /\ ~job[j].recognizer
            /\ job[j].wav = NoFile
            /\ job[j].heard = 0
            /\ ~job[j].recognised
            /\ job[j].words = <<>>
            /\ job[j].subtitles = <<>>
            /\ job[j].scriptWrites = 0
            /\ job[j].safeWrites = 0
            /\ job[j].compositorRuns = 0

\* the resampler of one job failed while the other job wrote its captions
ResampleFailureWitness ==
    \E j \in Jobs :
        /\ job[j].resampleRc = 1
        /\ job[j].pc = "raised"
        /\ job[j].error = ConvertFailedMessage
        /\ \E k \in Jobs \ {j} : job[k].safeWrites = 1 /\ job[k].recognizer

\* s is the first characters of t
IsPrefix(s, t) == Len(s) <= Len(t) /\ s = SubSeq(t, 1, Len(s))

\* C17: once the compositor has returned and its result has been tested, the
\* job has raised the compositor failure if and only if the exit code was
\* non-zero or the output file was missing, and has returned otherwise; the
\* message holds the first 200 characters of stderr at most (all of a shorter
\* stderr, a fixed text for an empty one); the compositor ran exactly once.
CompositorFailureIffBadResult ==
    \A j \in Jobs :
        /\ job[j].compositorRuns <= 1
        /\ job[j].outputSeen # "unchecked" =>
              /\ job[j].compositorRuns = 1
              /\ job[j].pc \in {"raised", "returned"}
              /\ ReportedCompositorFailure(j)
                    <=> (job[j].returncode # 0 \/ job[j].outputSeen = "no")
              /\ ReportedCompositorFailure(j) =>
                    /\ Len(job[j].detail) <= ExcerptLen
                    /\ job[j].stderr # <<>> =>
                          /\ IsPrefix(job[j].detail, job[j].stderr)
                          /\ Len(job[j].stderr) <= ExcerptLen => job[j].detail = job[j].stderr
                          /\ Len(job[j].stderr) > ExcerptLen => Len(job[j].detail) = ExcerptLen
                    /\ job[j].stderr = <<>> => job[j].detail = UnknownFfmpegError

\* the compositor failure was raised for an exit code 0 without output file,
\* and in the other job for a non-zero exit with a long stderr
CompositorFailureWitness ==
    \E j \in Jobs :
        /\ ReportedCompositorFailure(j)
        /\ job[j].returncode = 0
        /\ job[j].outputSeen = "no"
        /\ job[j].detail = ShortStderr
        /\ \E k \in Jobs \ {j} :
              /\ ReportedCompositorFailure(k)
              /\ job[k].returncode = 1
              /\ job[k].stderr = LongStderr
              /\ Len(job[k].detail) = ExcerptLen

\* the compositor of job j exited with 0 and left the output file
CompositorSucceeded(j) ==
    \E n \in 1..Len(job[j].stages) :
        job[j].stages[n] = [stage |-> "compositor", ok |-> TRUE]

CleanupFailed(j) == job[j].removeFailed \/ job[j].rmdirFailed

\* C18: a failed deletion of the working copy or of its directory does not
\* change the outcome: the job never ends with the deletion's error, and when
\* the compositor succeeded and left the output file the job returns the
\* output path.
CleanupFailureKeepsOutcome ==
    \A j \in Jobs :
        (CleanupFailed(j) /\ Ended(j)) =>
            /\ job[j].pc = "raised" =>
                  /\ ReportedCompositorFailure(j)
                  /\ ~CompositorSucceeded(j)
            /\ CompositorSucceeded(j) =>
                  /\ job[j].pc = "returned"
                  /\ job[j].result = FinalOutputPath(job[j].session)

\* a job returned its output path although its working copy could not be
\* deleted and is still on disk
CleanupFailureWitness ==
    \E j \in Jobs :
        /\ job[j].pc = "returned"
        /\ job[j].removeFailed
        /\ OwnWorkingCopyOnDisk(j)
        /\ Exists(job[j].result)

-----------------------------------------------------------------------------
(* The primary caption file and the order of the stages (SpecPipeline) *)

\* the compositor of job j has ended without success: a non-zero exit code,
\* no output file, or an exception
CompositorStageFailed(j) ==
    \E n \in 1..Len(job[j].stages) :
        job[j].stages[n] = [stage |-> "compositor", ok |-> FALSE]

\* C19: every step a job takes after its compositor has failed leaves the
\* primary caption file as it is, neither deleted nor rewritten; of all
\* files only the working copy and its directory may change.
FailureHandlingKeepsPrimaryCaption ==
    [][\A j \in Jobs :
          (CompositorStageFailed(j) /\ job'[j] # job[j]) =>
              /\ fs'[ScriptOutputPath(job[j].session)] = fs[ScriptOutputPath(job[j].session)]
              /\ \A p \in Paths \ {SafePath, SafeDir} : fs'[p] = fs[p]]_vars

\* a job reported the compositor failure after removing the working copy,
\* and its primary caption file is on disk with the text the job wrote
PrimaryCaptionKeptWitness ==
    \E j \in Jobs :
        /\ ReportedCompositorFailure(j)
        /\ job[j].scriptWrites = 1
        /\ ~job[j].removeFailed
        /\ ~Exists(SafePath)
        /\ fs[ScriptOutputPath(job[j].session)] = Caption(j, job[j].subtitles)

StageNames(j) == [n \in 1..Len(job[j].stages) |-> job[j].stages[n].stage]

\* C20: the stages of a run end in the order resample, recognize, chunk,
\* format, persist (primary, then working copy), compositor, cleanup, and a
\* stage is followed by another one only if it succeeded.
StagesInOrderAfterSuccess ==
    \A j \in Jobs :
        /\ IsPrefix(StageNames(j), StageOrder)
        /\ \A n \in 1..(Len(job[j].stages) - 1) : job[j].stages[n].ok

\* C20, as the code has it: the stages end in that order, and a stage is
\* followed by another one only if it succeeded, except that the cleanup
\* also follows a compositor that returned without success.
StagesInOrderCleanupAlways ==
    \A j \in Jobs :
        /\ IsPrefix(StageNames(j), StageOrder)
        /\ \A n \in 1..(Len(job[j].stages) - 1) :
              job[j].stages[n].ok \/ job[j].stages[n].stage = "compositor"

\* a run went through all the stages, the cleanup after a compositor that
\* exited with a non-zero code
StagesWitness ==
    \E j \in Jobs :
        /\ StageNames(j) = StageOrder
        /\ job[j].returncode = 1
        /\ ~job[j].stages[Len(StageOrder) - 1].ok
        /\ job[j].stages[Len(StageOrder)].ok
        /\ ReportedCompositorFailure(j)

-----------------------------------------------------------------------------
(* Chunk times, termination and the pair decision *)

\* position in the input (from 1) of the last word of chunk j
LastPos(cs, j) == FirstPos(cs, j) + Len(ChunkWords(cs[j])) - 1

\* C21: every chunk emitted so far starts at the start of its first word
\* and ends at the end of its last word (the same word for a one-word chunk,
\* the second word for a two-word chunk).
ChunkTimesFromWords ==
    pc \in {"chunking", "chunked", "formatted"} =>
        \A j \in 1..Len(chunks) :
            /\ LastPos(chunks, j) <= Len(words_with_time)
            /\ chunks[j].start = words_with_time[FirstPos(chunks, j)].start
            /\ chunks[j].end = words_with_time[LastPos(chunks, j)].end

\* a one-word chunk and a two-word chunk whose words have different times
ChunkTimesFromWordsWitness ==
    /\ Returned
    /\ \E j \in 1..Len(chunks) : Len(ChunkWords(chunks[j])) = 1
    /\ \E j \in 1..Len(chunks) :
          /\ Len(ChunkWords(chunks[j])) = 2
          /\ words_with_time[FirstPos(chunks, j)].start
                # words_with_time[LastPos(chunks, j)].start
          /\ words_with_time[FirstPos(chunks, j)].end
                # words_with_time[LastPos(chunks, j)].end

\* C22: the chunker terminates on every word list: each iteration appends
\* one chunk and moves the cursor forward by 1 or 2, no iteration runs once
\* the cursor has reached the number of words, the function returns with
\* the cursor at or past the end (for the empty list with no chunk), and it
\* does return.
ChunkerTerminates ==
    /\ [][(pc = "chunking" /\ pc' = "chunking") =>
             /\ i < Len(words_with_time)
             /\ Len(chunks') = Len(chunks) + 1
             /\ i' - i \in {1, 2}]_vars
    /\ [][(pc = "chunking" /\ ~(i < Len(words_with_time))) =>
             (pc' = "chunked" /\ chunks' = chunks /\ i' = i)]_vars
    /\ [](pc = "chunked" =>
             /\ i >= Len(words_with_time)
             /\ i <= Len(words_with_time) + 1
             /\ (words_with_time = <<>> => chunks = <<>>))
    /\ <>(pc = "chunked")

\* the function returned for the empty list, without an iteration
ChunkerTerminatesWitness ==
    /\ pc = "chunked"
    /\ words_with_time = <<>>
    /\ chunks = <<>>
    /\ i = 0

\* C23: at the cursor, a word of at most 5 characters without terminal
\* punctuation followed by a word of at most 5 characters is merged with it
\* into one chunk, whether or not the following word ends in punctuation.
PairDecisionIgnoresNextPunctuation ==
    [][(/\ pc = "chunking"
        /\ i + 1 < Len(words_with_time)
        /\ Len(words_with_time[i + 1].word) <= 5
        /\ ~IsPunct(words_with_time[i + 1].word)
        /\ Len(words_with_time[i + 2].word) <= 5) =>
            /\ i' = i + 2
            /\ chunks' = Append(chunks,
                   [text  |-> words_with_time[i + 1].word \o <<" ">>
                                  \o words_with_time[i + 2].word,
                    start |-> words_with_time[i + 1].start,
                    end   |-> words_with_time[i + 2].end])]_vars

\* a short plain word was merged with a short word ending in punctuation
PairDecisionWitness ==
    /\ Returned
    /\ \E j \in 1..Len(chunks) : ChunkWords(chunks[j]) = <<Hello, GoBang>>

-----------------------------------------------------------------------------
(* The collected word list (SpecPipeline) *)

\* job j is between the creation of the word list and its hand-over
Recognizing(j) == job[j].pc \in {"read_frames", "remove_wav", "check_words"}

ResultWords(j) == Flatten([n \in 1..Len(job[j].results) |-> job[j].results[n].words])

\* C24: the collected word list is the concatenation, in the order read, of
\* the words of the partial results and then of the final result; these are
\* the recognizer's words in its order; the final result is read once, last,
\* when no audio is left, and so stands in the list handed to the chunker.
WordsAreResultsInOrder ==
    \A j \in Jobs :
        Recognizing(j) =>
            /\ job[j].words = ResultWords(j)
            /\ job[j].words = SubSeq(Spoken(job[j].wav.from), 1, job[j].heard)
            /\ \A n \in 1..(Len(job[j].results) - 1) : job[j].results[n].kind = "partial"
            /\ job[j].pc = "read_frames" =>
                  \A n \in 1..Len(job[j].results) : job[j].results[n].kind = "partial"
            /\ job[j].pc \in {"remove_wav", "check_words"} =>
                  /\ job[j].results # <<>>
                  /\ job[j].results[Len(job[j].results)].kind = "final"
                  /\ job[j].frames = 0

\* a word list about to be handed over that holds a word from a partial
\* result followed by a word from the final result
WordsAreResultsWitness ==
    \E j \in Jobs :
        /\ job[j].pc = "check_words"
        /\ Len(job[j].results) = 2
        /\ job[j].results[1].words # <<>>
        /\ job[j].results[2].words # <<>>
        /\ Len(job[j].words) = 2

-----------------------------------------------------------------------------
(* Files shared by concurrent jobs (SpecPipeline) *)

\* C25: a job that ends with status completed has a video_path that names a
\* video file written by the same job.
CompletedVideoIsOwn ==
    \A j \in Jobs :
        job[j].status = "completed" =>
            /\ Exists(job[j].video_path)
            /\ fs[job[j].video_path].owner = j

\* C26: the resampled audio a job's recognizer reads is the file the same
\* job resampled, and the file is still there when the job removes it.
ResampledAudioIsOwn ==
    \A j \in Jobs :
        /\ job[j].wav # NoFile => job[j].wav.owner = j
        /\ job[j].recognised => job[j].error # FileNotFoundMessage

-----------------------------------------------------------------------------
(* web_app.py: create_video_with_progress and its progress simulation thread *)

\* web_app.py:169-180  stages = [(15, "Starting multi-agent workflow"), ...]
\* with the texts of tone_value >= 0.5, the default tone
Stages ==
    << [target_progress |-> 15, stage |-> "Starting multi-agent workflow"],
       [target_progress |-> 25, stage |-> "Analyzing viral trends (info-focused)"],
       [target_progress |-> 35, stage |-> "Searching for trending topics"],
       [target_progress |-> 45, stage |-> "Researching content ideas"],
       [target_progress |-> 55, stage |-> "Creating informative script"],
       [target_progress |-> 65, stage |-> "Generating AI narration"],
       [target_progress |-> 75, stage |-> "Processing video templates"],
       [target_progress |-> 85, stage |-> "Adding dynamic subtitles"],
       [target_progress |-> 92, stage |-> "Adding background music"],
       [target_progress |-> 95, stage |-> "Finalizing video"] >>

\* web_app.py:252
CompletedStage == "Video completed!"

\* web_app.py:156-158, 194-196: the state when progress_thread.start() has run:
\* update_progress("System initialized", 10), status "processing"
InitProgress ==
    /\ ChunkerIdle
    /\ PipelineIdle
    /\ ConfigIdle
    /\ ScriptIdle
    /\ video_job = [status |-> "processing", progress |-> 10,
                    current_stage |-> "System initialized"]
    /\ worker = "create_viral_video"
    /\ progress_thread = [pc |-> "for", k |-> 1]

\* web_app.py:199-204  result = manager.create_viral_video(job.topic);
\*                     job.status = "finalizing"
StopSimulation ==
    /\ worker = "create_viral_video"
    /\ video_job' = [video_job EXCEPT !.status = "finalizing"]
    /\ worker' = "find_video"
    /\ UNCHANGED <<chunkerVars, timeVars, pipelineVars, clock, progress_thread,
                   configVars, scriptVars>>

\* web_app.py:206-247  the search for the video file, then
\*                     job.video_path = ...; job.status = "completed"
\* web_app.py:259-276  or: raise Exception(...); job.status = "failed"
FindVideo ==
    /\ worker = "find_video"
    /\ \E found \in BOOLEAN :
          IF found
          THEN /\ video_job' = [video_job EXCEPT !.status = "completed"]
               /\ worker' = "set_progress"
          ELSE /\ video_job' = [video_job EXCEPT !.status = "failed"]
               /\ worker' = "returned"
    /\ UNCHANGED <<chunkerVars, timeVars, pipelineVars, clock, progress_thread,
                   configVars, scriptVars>>

\* web_app.py:248  job.progress = 100
SetProgress ==
    /\ worker = "set_progress"
    /\ video_job' = [video_job EXCEPT !.progress = 100]
    /\ worker' = "update_stage"
    /\ UNCHANGED <<chunkerVars, timeVars, pipelineVars, clock, progress_thread,
                   configVars, scriptVars>>

\* web_app.py:252, 62  update_progress("Video completed!", 100): self.current_stage = stage
WorkerUpdateStage ==
    /\ worker = "update_stage"
    /\ video_job' = [video_job EXCEPT !.current_stage = CompletedStage]
    /\ worker' = "update_progress"
    /\ UNCHANGED <<chunkerVars, timeVars, pipelineVars, clock, progress_thread,
                   configVars, scriptVars>>

\* web_app.py:252, 63  update_progress("Video completed!", 100): self.progress = progress
WorkerUpdateProgress ==
    /\ worker = "update_progress"
    /\ video_job' = [video_job EXCEPT !.progress = 100]
    /\ worker' = "returned"
    /\ UNCHANGED <<chunkerVars, timeVars, pipelineVars, clock, progress_thread,
                   configVars, scriptVars>>

\* web_app.py:183-185  for target_progress, stage in stages:
\*                         if job.status != "processing": break
SimulateNext ==
    /\ progress_thread.pc = "for"
    /\ progress_thread' =
          IF progress_thread.k > Len(Stages) \/ video_job.status # "processing"
          THEN [progress_thread EXCEPT !.pc = "returned"]
          ELSE [progress_thread EXCEPT !.pc = "sleep"]
    /\ UNCHANGED <<chunkerVars, timeVars, pipelineVars, clock, video_job, worker,
                   configVars, scriptVars>>

\* web_app.py:187-191  time.sleep(min(wait_time, 10));
\*                     if job.status == "processing": job.update_progress(...)
SimulateCheck ==
    /\ progress_thread.pc = "sleep"
    /\ progress_thread' =
          IF video_job.status = "processing"
          THEN [progress_thread EXCEPT !.pc = "update_stage"]
          ELSE [progress_thread EXCEPT !.pc = "for", !.k = @ + 1]
    /\ UNCHANGED <<chunkerVars, timeVars, pipelineVars, clock, video_job, worker,
                   configVars, scriptVars>>

\* web_app.py:191, 62  update_progress(stage, target_progress): self.current_stage = stage
SimulateUpdateStage ==
    /\ progress_thread.pc = "update_stage"
    /\ video_job' = [video_job EXCEPT !.current_stage = Stages[progress_thread.k].stage]
    /\ progress_thread' = [progress_thread EXCEPT !.pc = "update_progress"]
    /\ UNCHANGED <<chunkerVars, timeVars, pipelineVars, clock, worker,
                   configVars, scriptVars>>

\* web_app.py:191, 63  update_progress(stage, target_progress): self.progress = progress
SimulateUpdateProgress ==
    /\ progress_thread.pc = "update_progress"
    /\ video_job' = [video_job EXCEPT
                        !.progress = Stages[progress_thread.k].target_progress]
    /\ progress_thread' = [progress_thread EXCEPT !.pc = "for", !.k = @ + 1]
    /\ UNCHANGED <<chunkerVars, timeVars, pipelineVars, clock, worker,
                   configVars, scriptVars>>

NextProgress ==
    \/ StopSimulation
    \/ FindVideo
    \/ SetProgress
    \/ WorkerUpdateStage
    \/ WorkerUpdateProgress
    \/ SimulateNext
    \/ SimulateCheck
    \/ SimulateUpdateStage
    \/ SimulateUpdateProgress

SpecProgress == InitProgress /\ [][NextProgress]_vars

\* C27: when the worker has returned with the job completed, the job shows
\* progress 100 and the completion stage, whatever the simulator does after.
CompletedJobKeepsFullProgress ==
    (worker = "returned" /\ video_job.status = "completed") =>
        /\ video_job.progress = 100
        /\ video_job.current_stage = CompletedStage

-----------------------------------------------------------------------------
(* config.py: ConfigManager and the config proxy, as used by the job threads *)

\* config.py:15-29  a Config object: its session id and the thread that built it
NewConfig(topic, job_id, now, t) ==
    [session_id |-> SessionId(topic, job_id, now), made_by |-> t]

\* config.py:199-208  ConfigManager.get_config() in thread t at second now
GetConfig(configs, t, now) ==
    IF configs[t] = NoConfig
    THEN NewConfig(<<>>, <<>>, now, t)
    ELSE configs[t]

\* clear_config that leaves the entry in place
ClearConfigKept(configs, t) == configs

\* config.py:218-225  ConfigManager.clear_config() in thread t
ClearConfig(configs, t) == [configs EXCEPT ![t] = NoConfig]

\* config.py:229-233, 41-43  config.AUDIO_OUTPUT_PATH read in thread t
ReadAudioPath(t) == AudioOutputPath(GetConfig(thread_configs, t, clock).session_id)

InitConfig ==
    /\ ChunkerIdle
    /\ PipelineIdle
    /\ WebIdle
    /\ ScriptIdle
    /\ thread_configs = [t \in Threads |-> NoConfig]
    /\ caller = [t \in Threads |-> [IdleCaller EXCEPT !.pc = "start"]]

\* what the actions on the config registry leave alone
configRest == <<chunkerVars, timeVars, pipelineVars, clock, webVars, scriptVars>>

\* web_app.py:149-158  job_config = Config(topic=..., job_id=...);
\*                     ConfigManager.set_config(job_config); status "processing"
SetConfig(t) ==
    /\ t \in Jobs
    /\ caller[t].pc = "start"
    /\ \E topic \in {TopicCats, TopicDogs} :
          thread_configs' =
              [thread_configs EXCEPT ![t] = NewConfig(topic, JobId(t), clock, t)]
    /\ caller' = [caller EXCEPT ![t].pc = "save", ![t].status = "processing"]
    /\ UNCHANGED configRest

\* main.py:77  manager.create_viral_video(topic) with no config registered
RunUnregistered ==
    /\ caller[MainThread].pc = "start"
    /\ caller' = [caller EXCEPT ![MainThread].pc = "save",
                                ![MainThread].status = "processing"]
    /\ UNCHANGED <<configRest, thread_configs>>

\* tools.py:378-383  await communicate.save(config.AUDIO_OUTPUT_PATH)
SaveNarration(t) ==
    /\ caller[t].pc = "save"
    /\ caller' = [caller EXCEPT ![t].pc = "check",
                                ![t].got = GetConfig(thread_configs, t, clock),
                                ![t].first = ReadAudioPath(t),
                                ![t].last = ReadAudioPath(t)]
    /\ UNCHANGED <<configRest, thread_configs>>

\* tools.py:390-391  if not os.path.exists(config.AUDIO_OUTPUT_PATH) ...:
\*                       raise Exception("Audio file creation failed")
CheckNarration(t) ==
    /\ caller[t].pc = "check"
    /\ caller' = [caller EXCEPT ![t].pc = IF ReadAudioPath(t) = caller[t].first
                                          THEN "return_path" ELSE "raised",
                                ![t].got = GetConfig(thread_configs, t, clock),
                                ![t].last = ReadAudioPath(t)]
    /\ UNCHANGED <<configRest, thread_configs>>

\* tools.py:393  return config.AUDIO_OUTPUT_PATH
ReturnNarration(t) ==
    /\ caller[t].pc = "return_path"
    /\ caller' = [caller EXCEPT ![t].pc = "finalizing",
                                ![t].got = GetConfig(thread_configs, t, clock),
                                ![t].last = ReadAudioPath(t)]
    /\ UNCHANGED <<configRest, thread_configs>>

\* web_app.py:245-264  the video was found: status "completed", clear_config()
Complete(t) ==
    /\ t \in Jobs
    /\ caller[t].pc = "finalizing"
    /\ thread_configs' = ClearConfig(thread_configs, t)
    /\ caller' = [caller EXCEPT ![t].pc = "returned", ![t].status = "completed"]
    /\ UNCHANGED configRest

\* web_app.py:265-276  no video: clear_config(), raise, then the handler:
\*                     clear_config() again, status "failed"
FailNotFound(t) ==
    /\ t \in Jobs
    /\ caller[t].pc \in {"finalizing", "raised"}
    /\ thread_configs' = ClearConfig(ClearConfig(thread_configs, t), t)
    /\ caller' = [caller EXCEPT ![t].pc = "returned", ![t].status = "failed"]
    /\ UNCHANGED configRest

\* web_app.py:270-276  an exception anywhere after set_config: clear_config(),
\*                     status "failed"
FailException(t) ==
    /\ t \in Jobs
    /\ caller[t].pc \in {"save", "check", "return_path"}
    /\ thread_configs' = ClearConfig(thread_configs, t)
    /\ caller' = [caller EXCEPT ![t].pc = "returned", ![t].status = "failed"]
    /\ UNCHANGED configRest

\* main.py:77-99  the run of the main thread returns
ReturnUnregistered ==
    /\ caller[MainThread].pc \in {"finalizing", "raised"}
    /\ caller' = [caller EXCEPT ![MainThread].pc = "returned",
                                ![MainThread].status =
                                    IF caller[MainThread].pc = "raised"
                                    THEN "failed" ELSE "completed"]
    /\ UNCHANGED <<configRest, thread_configs>>

NextConfig ==
    \/ Tick
    \/ RunUnregistered
    \/ ReturnUnregistered
    \/ \E t \in Threads :
          \/ SetConfig(t)
          \/ SaveNarration(t)
          \/ CheckNarration(t)
          \/ ReturnNarration(t)
          \/ Complete(t)
          \/ FailNotFound(t)
          \/ FailException(t)

SpecConfig == InitConfig /\ [][NextConfig]_vars

\* C28: within one run, every read of the narration path through the config
\* proxy returns the path the first read returned.
ProxyPathIsStable ==
    \A t \in Threads : caller[t].first # <<>> => caller[t].last = caller[t].first

\* C29: a job thread that has returned, completed or failed, has no entry in
\* ConfigManager, and the config a thread gets is one that thread built.
ConfigIsThreadLocalAndCleared ==
    \A t \in Threads :
        /\ caller[t].pc = "returned" => thread_configs[t] = NoConfig
        /\ caller[t].got # NoConfig => caller[t].got.made_by = t

\* one job thread has failed and the other has completed, both after reading
\* their config, and the thread without a registered config has read one too
ConfigClearedWitness ==
    \E t, u \in Jobs :
        /\ t # u
        /\ caller[t].pc = "returned"
        /\ caller[t].status = "failed"
        /\ caller[t].got # NoConfig
        /\ caller[u].pc = "returned"
        /\ caller[u].status = "completed"
        /\ caller[u].got # NoConfig
        /\ caller[MainThread].got # NoConfig

-----------------------------------------------------------------------------
(* tools.py: ContentCreationTool._generate_script_with_prompt *)

\* tools.py:252  for attempt in range(3)
Attempts == 3
\* tools.py:263, 267  if attempt == 2
LastAttempt == 2

\* what self._llm.invoke(prompt) may return: text without JSON, the empty
\* object, an object without script_text, an object with script_text
Responses == {"text", "empty_object", "no_script", "script"}

\* tools.py:265, 269  the messages of the error results
NoJsonMessage == "Failed to generate valid JSON after 3 attempts"
GenerationFailedMessage == "Content generation failed: "

\* tools.py:271-289  _extract_json: None when no JSON object can be loaded
ExtractJson(response) == IF response = "text" THEN "None" ELSE response

\* tools.py:256  if content:  (None and the empty dict are false)
Truthy(content) == content \notin {"None", "empty_object"}

\* tools.py:301-303  _validate_content raises when script_text is empty
ValidateRaises(content) == content # "script"

\* a last-attempt test that never holds
IsLastAttemptNever(attempt) == FALSE

\* tools.py:263, 267  attempt == 2
IsLastAttempt(attempt) == attempt = LastAttempt

\* the attempt failed with the given outcome: return the error result on the
\* last attempt, else go on with the loop; the loop's end returns None
AttemptFailed(s, outcome, message) ==
    LET done == [s EXCEPT !.outcomes = Append(@, outcome), !.response = ""]
    IN  IF IsLastAttempt(s.attempt)
        THEN [done EXCEPT !.pc = "returned",
                          !.result = [kind |-> "error", message |-> message]]
        ELSE IF s.attempt + 1 < Attempts
             THEN [done EXCEPT !.pc = "invoke", !.attempt = @ + 1]
             ELSE [done EXCEPT !.pc = "returned", !.result = [kind |-> "None"]]

InitScript ==
    /\ ChunkerIdle
    /\ PipelineIdle
    /\ WebIdle
    /\ ConfigIdle
    /\ script = [IdleScript EXCEPT !.pc = "invoke"]

\* what the actions on the script loop leave alone
scriptRest == <<chunkerVars, timeVars, pipelineVars, clock, webVars, configVars>>

\* tools.py:254  response = self._llm.invoke(prompt)
Invoke ==
    /\ script.pc = "invoke"
    /\ \E response \in Responses :
          script' = [script EXCEPT !.pc = "extract", !.invocations = @ + 1,
                                   !.response = response]
    /\ UNCHANGED scriptRest

\* tools.py:254, 266-269  self._llm.invoke(prompt) raises
InvokeRaises ==
    /\ script.pc = "invoke"
    /\ script' = AttemptFailed([script EXCEPT !.invocations = @ + 1],
                               "exception", GenerationFailedMessage)
    /\ UNCHANGED scriptRest

\* tools.py:255-256, 262-265  content = self._extract_json(response); if content:
Extract ==
    /\ script.pc = "extract"
    /\ script' = IF Truthy(ExtractJson(script.response))
                 THEN [script EXCEPT !.pc = "validate"]
                 ELSE AttemptFailed(script, "unparsable", NoJsonMessage)
    /\ UNCHANGED scriptRest

\* tools.py:257-261, 266-269  validated_content = self._validate_content(...);
\*                            return json.dumps(validated_content)
Validate ==
    /\ script.pc = "validate"
    /\ script' = IF ValidateRaises(ExtractJson(script.response))
                 THEN AttemptFailed(script, "invalid", GenerationFailedMessage)
                 ELSE [script EXCEPT !.pc = "returned",
                                     !.outcomes = Append(@, "valid"),
                                     !.response = "",
                                     !.result = [kind |-> "content",
                                                 attempt |-> script.attempt]]
    /\ UNCHANGED scriptRest

NextScript == Invoke \/ InvokeRaises \/ Extract \/ Validate

SpecScript == InitScript /\ [][NextScript]_vars

\* C30: the model is invoked at most 3 times; the call returns the content of
\* the first valid attempt and makes no further attempt; it returns an error
\* result exactly when all 3 attempts failed; it returns nothing else, and
\* before it returns another step of the loop is always possible.
ScriptLoopReturns ==
    LET o == script.outcomes
    IN  /\ script.invocations <= Attempts
        /\ \A k \in 1 .. Len(o) - 1 : o[k] # "valid"
        /\ script.pc # "returned" => script.attempt < Attempts /\ Len(o) = script.attempt
        /\ script.pc = "returned" =>
              /\ script.invocations = Len(o)
              /\ script.result.kind \in {"content", "error"}
              /\ script.result.kind = "content" <=>
                    /\ o[Len(o)] = "valid"
                    /\ script.result.attempt = Len(o) - 1
              /\ script.result.kind = "error" <=>
                    /\ Len(o) = Attempts
                    /\ \A k \in 1 .. Len(o) : o[k] # "valid"

\* the call returned an error after an exception, an unparsable response and
\* a failed validation
ScriptErrorWitness ==
    /\ script.pc = "returned"
    /\ script.result.kind = "error"
    /\ script.outcomes = <<"exception", "unparsable", "invalid">>

=============================================================================
